---- MODULE Spec2Model ----
(***************************************************************************)
(* A model of the two service workers of pwa-getstarted: the hand-written  *)
(* worker (src/sw.js) and the Workbox variant (src/app.js, lines 299-493), *)
(* with the Cache Storage they share with the browser runtime.             *)
(*                                                                         *)
(* The state is the worker's lifecycle state, the position of its install  *)
(* and activate promise chains, the origin's Cache Storage, and one record *)
(* per intercepted fetch event (an asynchronous task that suspends at      *)
(* every cache and network call).                                          *)
(***************************************************************************)
EXTENDS Integers, Sequences, FiniteSets, TLC

VARIABLES
    variant,        \* which worker script is registered: "vanilla" | "workbox"
    swState,        \* ServiceWorker.state of the worker being modelled
    installPc,      \* position of the install handler's promise chain
    activatePc,     \* position of the activate handler's promise chain
    pending,        \* caches.delete calls issued by activate and not yet settled
    caches,         \* Cache Storage: sequence (creation order) of [name, entries]
    skipWaitingFlag,\* self.skipWaiting() has been called
    claimed,        \* self.clients.claim() has been called
    oldControls,    \* a previous worker version still controls open pages
    logged,         \* console.error lines written by the handlers
    removing,       \* cache names logged by line 58 ('Removing old cache:')
    tasks,          \* one record per fetch event
    syncQueue,      \* the Workbox background-sync queue 'syncQueue'
    bgSync,         \* the guard of app.js line 423 ('BackgroundSyncPlugin' in workbox)
    lastMsg,        \* the data of the last message event the worker received
    installRuns,    \* install events dispatched so far (one per worker instance)
    lastInstall,    \* Cache Storage when the latest install event was dispatched
    background,     \* sw.js: the last sync or push event and what its listener did
    replay,         \* the background-sync replay (onSync) in progress
    page            \* app.js: the install prompt and the checklist of the page

vars == <<variant, swState, installPc, activatePc, pending, caches,
          skipWaitingFlag, claimed, oldControls, logged, removing, tasks,
          syncQueue, bgSync, lastMsg, installRuns, lastInstall, background,
          replay, page>>

\* the state of the handlers other than the worker's lifecycle and fetch handlers
lifeVars == <<lastMsg, installRuns, lastInstall, background>>

----------------------------------------------------------------------------
(* Bounds of the model *)

\* number of fetch events dispatched to the worker in one run
MaxFetches == 2

\* number of message events posted to the worker in one run
MaxMessages == 2

\* number of install events in one run: one per instance of the worker
MaxInstalls == 2

\* number of requests pushed to the background-sync queue in one run
MaxQueued == 3

\* number of sync events (calls of onSync) in one run
MaxSyncs == 2

\* number of beforeinstallprompt events the page receives in one run
MaxPromptEvents == 2

\* number of clicks on the install buttons in one run
MaxClicks == 3

\* number of fetch, message, sync and push events the hand-written worker
\* is given in one run of its event handling
MaxEvents == 2

----------------------------------------------------------------------------
(* Program constants *)

CACHE_NAME == "pwa-getstarted-v1"

CACHE_URLS ==
    << "./", "./index.html", "./styles.css", "./app.js", "./manifest.json",
       "./icons/icon-72.png", "./icons/icon-96.png", "./icons/icon-128.png",
       "./icons/icon-144.png", "./icons/icon-152.png", "./icons/icon-192.png",
       "./icons/icon-384.png", "./icons/icon-512.png" >>

ManifestUrls == {CACHE_URLS[i] : i \in DOMAIN CACHE_URLS}

\* the document sw.js answers a failed navigation with
FallbackUrl == "./index.html"

Variants == {"vanilla", "workbox"}

----------------------------------------------------------------------------
(* Responses.  type: "basic" (same-origin), "opaque" (cross-origin no-cors, *)
(* status 0), "error" (Response.error()), and three non-responses:          *)
(* "undefined", "rejected" (the promise rejected) and "none" (not settled). *)

Resp(t, s, b) == [type |-> t, status |-> s, body |-> b]

NoResp    == Resp("none", 0, "")
Undefined == Resp("undefined", 0, "")
Rejected  == Resp("rejected", 0, "TypeError")
ErrorResponse == Resp("error", 0, "")

\* what the network can answer a same-origin or a cross-origin request with
NetResponses(req) ==
    IF req.origin = "same"
    THEN {Resp("basic", 200, "v1"), Resp("basic", 200, "v2"), Resp("basic", 404, "nf")}
    ELSE {Resp("opaque", 0, "x")}

\* what the page observes for what the worker handed to respondWith
Delivered(r) ==
    IF r.type \in {"rejected", "undefined", "error"} THEN "NetworkError" ELSE r.body

----------------------------------------------------------------------------
(* Requests *)

Req(m, u, o, md, d) == [method |-> m, url |-> u, origin |-> o, mode |-> md, dest |-> d]

Requests ==
    { Req("GET",  "./index.html",          "same",  "navigate", "document"),
      Req("GET",  "./about.html",          "same",  "navigate", "document"),
      Req("GET",  "./styles.css",          "same",  "no-cors",  "style"),
      Req("GET",  "./theme.css",           "same",  "no-cors",  "style"),
      Req("POST", "./api/save",            "same",  "cors",     ""),
      Req("GET",  "https://cdn.test/a.png", "cross", "no-cors",  "image") }

NoReq == Req("", "", "", "", "")

----------------------------------------------------------------------------
(* Cache Storage *)

NoEntries == [u \in {} |-> NoResp]

CacheNames(cs) == {cs[i].name : i \in DOMAIN cs}

HasCache(cs, n) == n \in CacheNames(cs)

CacheIndex(cs, n) == CHOOSE i \in DOMAIN cs : cs[i].name = n

Entries(cs, n) == IF HasCache(cs, n) THEN cs[CacheIndex(cs, n)].entries ELSE NoEntries

\* (a cache created at every call)
OpenCacheMutant(cs, n) == Append(cs, [name |-> n, entries |-> NoEntries])

\* caches.open(n): creates the cache when it does not exist
OpenCache(cs, n) ==
    IF HasCache(cs, n) THEN cs ELSE Append(cs, [name |-> n, entries |-> NoEntries])

\* caches.delete(n)
DeleteCache(cs, n) == SelectSeq(cs, LAMBDA c : c.name # n)

\* cache.match(url) in the cache named n
MatchIn(cs, n, url) ==
    IF url \in DOMAIN Entries(cs, n) THEN Entries(cs, n)[url] ELSE Undefined

\* caches.match(url): the first cache, in creation order, that holds the key
MatchAll(cs, url) ==
    LET hits == {i \in DOMAIN cs : url \in DOMAIN cs[i].entries}
    IN  IF hits = {} THEN Undefined
        ELSE cs[CHOOSE i \in hits : \A j \in hits : i <= j].entries[url]

\* (the cache opened and nothing stored)
PutEntryMutant(cs, n, url, resp) == OpenCache(cs, n)

\* cache.put(url, resp) in the cache named n (opened first)
PutEntry(cs, n, url, resp) ==
    LET o == OpenCache(cs, n)
    IN  [o EXCEPT ![CacheIndex(o, n)].entries = (url :> resp) @@ @]

\* cache.addAll(CACHE_URLS): every entry fetched and stored, or none
AddAll(cs, n) ==
    LET o == OpenCache(cs, n)
    IN  [o EXCEPT ![CacheIndex(o, n)].entries =
            [u \in ManifestUrls |-> Resp("basic", 200, "v1")] @@ @]

----------------------------------------------------------------------------
(* Workbox configuration (src/app.js) *)

\* setCacheNameDetails: prefix-precache-suffix
PrecacheName == "pwa-getstarted-precache-v1"
ImagesCache  == "pwa-getstarted-images"
PagesCache   == "pwa-getstarted-pages"
AssetsCache  == "pwa-getstarted-assets"

----------------------------------------------------------------------------
(* Initial state: the install event has just been dispatched *)

StaleV0    == "pwa-getstarted-v0"
OtherCache == "third-party"

\* caches an earlier version of the site, or another script, left behind
LeftBehind ==
    << [name |-> StaleV0,
        entries |-> (FallbackUrl :> Resp("basic", 200, "v0"))],
       [name |-> OtherCache, entries |-> NoEntries] >>

InitialCaches(v) ==
    IF v = "vanilla"
    THEN {<< >>, LeftBehind}
    ELSE {<< >>}

IdleTask ==
    [pc |-> "idle", req |-> NoReq, route |-> "none", result |-> NoResp,
     responded |-> FALSE, readCache |-> FALSE, miss |-> FALSE,
     net |-> NoResp, netFailed |-> FALSE, wrote |-> FALSE, put |-> NoResp,
     putCache |-> "", putFailed |-> FALSE, after |-> FALSE,
     afterPut |-> FALSE, timedOut |-> FALSE]

Tasks == 1..MaxFetches

\* event.data of a message event: absent, or an object with or without the
\* property 'type'; n counts the message events
Msg(n, d, ty) == [n |-> n, data |-> d, type |-> ty]

\* no message event yet
NotReceived == Msg(0, "absent", "undefined")

\* a sync or push event handled by sw.js.  n counts these events; detail is
\* the tag of a sync event, or the body of the notification a push event
\* has shown; extended: the listener called event.waitUntil
Background(n, k, d, w) == [n |-> n, kind |-> k, detail |-> d, extended |-> w]

\* no sync or push event yet
NoBackground == Background(0, "none", "", FALSE)

\* an entry of the background-sync queue: ids are given in arrival order
QueueEntry(id, url) == [id |-> id, url |-> url]

NoQueueEntry == QueueEntry(0, "")

\* no sync event yet.  entry: the request onSync has shifted and is
\* replaying; queued: requests pushed so far; expired: how many of them,
\* oldest first, have outlived maxRetentionTime; replayed: ids whose replay
\* fetch resolved, in order; dropped: ids shiftRequest discarded as expired;
\* syncs: calls of onSync; left: the queue as the last call of onSync left it
IdleReplay ==
    [pc |-> "idle", entry |-> NoQueueEntry, queued |-> 0, expired |-> 0,
     replayed |-> << >>, dropped |-> {}, syncs |-> 0, left |-> << >>]

\* the checklist items the page script updates: the two of
\* registerServiceWorker and one of verifyPWAChecklist
ChecklistItems == {"check-sw", "check-offline", "check-https"}

\* the classes classList.remove is given (line 140)
StatusClasses == {"success", "warning", "error"}

\* the icons the callers pass with the statuses
Icons == {"check mark", "warning sign", "cross mark"}

\* an element of the checklist: whether getElementById finds it, its class
\* list, whether it has a .check-icon child and that child's text
Item(p, cl, h, ic) == [present |-> p, classes |-> cl, hasIcon |-> h, icon |-> ic]

\* an item not yet given a status
PendingItem == Item(TRUE, {"check-item"}, TRUE, "hourglass")

\* what the document can hold for an item: nothing, the item not yet given a
\* status, with or without its icon element, or the item with a status
ItemShapes ==
    { Item(FALSE, {}, FALSE, ""),
      PendingItem,
      Item(TRUE, {"check-item"}, FALSE, ""),
      Item(TRUE, {"check-item", "warning"}, TRUE, "warning sign") }

\* the page once app.js has run: no deferred prompt (0 stands for null);
\* the install buttons hidden.  events: beforeinstallprompt events so far,
\* numbered from 1; prompts[e]: calls of prompt() on event e; awaiting: the
\* click handlers suspended at 'await deferredPrompt.userChoice', each with
\* the event it awaits; chosen: the events whose userChoice has resolved.
\* items: the checklist; latest[id]: the status of the latest call of
\* updateChecklistItem for id; calls: such calls by other callers than
\* registerServiceWorker; swIcon: the text of the status panel's icon;
\* registerPc, path: where registerServiceWorker is and the path it took
InitialPage ==
    [deferredPrompt |-> 0, visible |-> FALSE, events |-> 0, clicks |-> 0,
     prompts |-> << >>, awaiting |-> << >>, chosen |-> {}, installed |-> FALSE,
     items |-> [id \in ChecklistItems |-> PendingItem],
     latest |-> [id \in ChecklistItems |-> ""],
     calls |-> 0, swIcon |-> "", registerPc |-> "idle", path |-> ""]

Init ==
    /\ variant \in Variants
    /\ swState = "installing"
    /\ installPc = IF variant = "vanilla" THEN "open" ELSE "precache"
    /\ activatePc = "idle"
    /\ pending = {}
    /\ caches \in InitialCaches(variant)
    \* workbox.core.skipWaiting() runs while the script is evaluated
    /\ skipWaitingFlag = (variant = "workbox")
    /\ claimed = FALSE
    /\ oldControls \in BOOLEAN
    /\ logged = {}
    /\ removing = {}
    /\ tasks = [t \in Tasks |-> IdleTask]
    /\ syncQueue = << >>
    /\ bgSync \in (IF variant = "workbox" THEN BOOLEAN ELSE {FALSE})
    /\ lastMsg = NotReceived
    /\ installRuns = 1
    /\ lastInstall = caches
    /\ background = NoBackground
    /\ replay = IdleReplay
    /\ page = InitialPage

----------------------------------------------------------------------------
(* sw.js: the install listener *)

\* caches.open(CACHE_NAME)
InstallOpen ==
    /\ variant = "vanilla" /\ swState = "installing" /\ installPc = "open"
    /\ caches' = OpenCache(caches, CACHE_NAME)
    /\ installPc' = "addAll"
    /\ UNCHANGED <<variant, swState, activatePc, pending, skipWaitingFlag,
                   claimed, oldControls, logged, tasks, syncQueue, bgSync, removing,
                   lifeVars, replay, page>>

\* cache.addAll(CACHE_URLS) resolves: every entry is stored
InstallAddAllOk ==
    /\ variant = "vanilla" /\ swState = "installing" /\ installPc = "addAll"
    /\ caches' = AddAll(caches, CACHE_NAME)
    /\ installPc' = "skipWaiting"
    /\ UNCHANGED <<variant, swState, activatePc, pending, skipWaitingFlag,
                   claimed, oldControls, logged, tasks, syncQueue, bgSync, removing,
                   lifeVars, replay, page>>

\* where the chain goes when cache.addAll rejects: the .catch of line 39
AfterAddAllRejected == "catch"

\* cache.addAll(CACHE_URLS) rejects (an entry could not be fetched): nothing
\* is stored, and the chain continues in its .catch
InstallAddAllFail ==
    /\ variant = "vanilla" /\ swState = "installing" /\ installPc = "addAll"
    /\ installPc' = AfterAddAllRejected
    /\ UNCHANGED <<variant, swState, activatePc, pending, caches, skipWaitingFlag,
                   claimed, oldControls, logged, tasks, syncQueue, bgSync, removing,
                   lifeVars, replay, page>>

\* .then(() => self.skipWaiting())
InstallSkipWaiting ==
    /\ variant = "vanilla" /\ swState = "installing" /\ installPc = "skipWaiting"
    /\ skipWaitingFlag' = TRUE
    /\ installPc' = "resolved"
    /\ UNCHANGED <<variant, swState, activatePc, pending, caches,
                   claimed, oldControls, logged, tasks, syncQueue, bgSync, removing,
                   lifeVars, replay, page>>

\* .catch((error) => console.error(...)): the handler returns undefined, so
\* the promise given to waitUntil is fulfilled
InstallCatch ==
    /\ variant = "vanilla" /\ swState = "installing" /\ installPc = "catch"
    /\ logged' = logged \cup {"Cache failed"}
    /\ installPc' = "resolved"
    /\ UNCHANGED <<variant, swState, activatePc, pending, caches, skipWaitingFlag,
                   claimed, oldControls, tasks, syncQueue, bgSync, removing,
                   lifeVars, replay, page>>

----------------------------------------------------------------------------
(* app.js (Workbox variant): precacheAndRoute's install step *)

\* every manifest entry is fetched and stored in the precache
WbInstallOk ==
    /\ variant = "workbox" /\ swState = "installing" /\ installPc = "precache"
    /\ caches' = AddAll(caches, PrecacheName)
    /\ installPc' = "resolved"
    /\ UNCHANGED <<variant, swState, activatePc, pending, skipWaitingFlag,
                   claimed, oldControls, logged, tasks, syncQueue, bgSync, removing,
                   lifeVars, replay, page>>

\* an entry cannot be fetched: the install promise rejects
WbInstallFail ==
    /\ variant = "workbox" /\ swState = "installing" /\ installPc = "precache"
    /\ caches' = OpenCache(caches, PrecacheName)
    /\ installPc' = "rejected"
    /\ UNCHANGED <<variant, swState, activatePc, pending, skipWaitingFlag,
                   claimed, oldControls, logged, tasks, syncQueue, bgSync, removing,
                   lifeVars, replay, page>>

----------------------------------------------------------------------------
(* The runtime's side of the lifecycle (event.waitUntil) *)

\* the promise given to the install event's waitUntil has settled
RuntimeInstalled ==
    /\ swState = "installing" /\ installPc \in {"resolved", "rejected"}
    /\ swState' = IF installPc = "resolved" THEN "installed" ELSE "redundant"
    /\ UNCHANGED <<variant, installPc, activatePc, pending, caches, skipWaitingFlag,
                   claimed, oldControls, logged, tasks, syncQueue, bgSync, removing,
                   lifeVars, replay, page>>

\* the pages the previous worker controls are closed
CloseOldClients ==
    /\ oldControls
    /\ swState \in {"installing", "installed"}
    /\ oldControls' = FALSE
    /\ UNCHANGED <<variant, swState, installPc, activatePc, pending, caches,
                   skipWaitingFlag, claimed, logged, tasks, syncQueue, bgSync, removing,
                   lifeVars, replay, page>>

\* a waiting worker is activated once nothing holds it back; the activate
\* event is dispatched
RuntimeActivate ==
    /\ swState = "installed"
    /\ skipWaitingFlag \/ ~oldControls
    /\ swState' = "activating"
    /\ activatePc' = IF variant = "vanilla" THEN "keys" ELSE "claim"
    /\ UNCHANGED <<variant, installPc, pending, caches, skipWaitingFlag,
                   claimed, oldControls, logged, tasks, syncQueue, bgSync, removing,
                   lifeVars, replay, page>>

\* the promise given to the activate event's waitUntil has settled; the
\* runtime activates the worker whether it was fulfilled or rejected
RuntimeActivated ==
    /\ swState = "activating" /\ activatePc \in {"resolved", "rejected"}
    /\ swState' = "activated"
    /\ oldControls' = FALSE
    /\ UNCHANGED <<variant, installPc, activatePc, pending, caches, skipWaitingFlag,
                   claimed, logged, tasks, syncQueue, bgSync, removing,
                   lifeVars, replay, page>>

----------------------------------------------------------------------------
(* sw.js: the activate listener *)

\* (a filter that knows one old name only)
IsStaleMutant(cacheName) == cacheName = StaleV0

\* the filter of line 56
IsStale(cacheName) == cacheName # CACHE_NAME

\* caches.keys() resolves; caches.delete is called for every stale name
ActivateKeys ==
    /\ variant = "vanilla" /\ activatePc = "keys"
    /\ pending' = {n \in CacheNames(caches) : IsStale(n)}
    /\ removing' = {n \in CacheNames(caches) : IsStale(n)}
    /\ activatePc' = "deleting"
    /\ UNCHANGED <<variant, swState, installPc, caches, skipWaitingFlag,
                   claimed, oldControls, logged, tasks, syncQueue, bgSync,
                   lifeVars, replay, page>>

\* one caches.delete resolves
ActivateDeleteOk(n) ==
    /\ n \in pending
    /\ caches' = DeleteCache(caches, n)
    /\ pending' = pending \ {n}
    /\ UNCHANGED <<variant, swState, installPc, activatePc, skipWaitingFlag,
                   claimed, oldControls, logged, tasks, syncQueue, bgSync, removing,
                   lifeVars, replay, page>>

\* where the chain goes when a caches.delete rejects: Promise.all rejects,
\* the .then of line 63 is skipped and there is no .catch
AfterDeleteRejected == "rejected"

\* one caches.delete rejects: the cache stays
ActivateDeleteFail(n) ==
    /\ n \in pending
    /\ pending' = pending \ {n}
    /\ activatePc' = IF activatePc = "deleting" THEN AfterDeleteRejected ELSE activatePc
    /\ UNCHANGED <<variant, swState, installPc, caches, skipWaitingFlag,
                   claimed, oldControls, logged, tasks, syncQueue, bgSync, removing,
                   lifeVars, replay, page>>

\* Promise.all resolves: every delete has resolved
ActivateAllDeleted ==
    /\ variant = "vanilla" /\ activatePc = "deleting" /\ pending = {}
    /\ activatePc' = "claim"
    /\ UNCHANGED <<variant, swState, installPc, pending, caches, skipWaitingFlag,
                   claimed, oldControls, logged, tasks, syncQueue, bgSync, removing,
                   lifeVars, replay, page>>

\* self.clients.claim() (sw.js line 65; workbox.core.clientsClaim())
ActivateClaim ==
    /\ activatePc = "claim"
    /\ claimed' = TRUE
    /\ activatePc' = "resolved"
    /\ UNCHANGED <<variant, swState, installPc, pending, caches, skipWaitingFlag,
                   oldControls, logged, tasks, syncQueue, bgSync, removing,
                   lifeVars, replay, page>>

Lifecycle ==
    \/ InstallOpen \/ InstallAddAllOk \/ InstallAddAllFail
    \/ InstallSkipWaiting \/ InstallCatch
    \/ WbInstallOk \/ WbInstallFail
    \/ RuntimeInstalled \/ CloseOldClients \/ RuntimeActivate \/ RuntimeActivated
    \/ ActivateKeys \/ ActivateAllDeleted \/ ActivateClaim
    \/ \E n \in pending : ActivateDeleteOk(n) \/ ActivateDeleteFail(n)

----------------------------------------------------------------------------
(* The message listener (sw.js lines 127-133, app.js lines 487-493) *)

\* what a client can post: nothing, an object without a type, an object of
\* another type, and the message the listener knows
MessageData ==
    { [data |-> "absent", type |-> "undefined"],
      [data |-> "object", type |-> "undefined"],
      [data |-> "object", type |-> "CLEAR_CACHE"],
      [data |-> "object", type |-> "SKIP_WAITING"] }

\* (any message that has data)
WantsSkipMutant(m) == m.data # "absent"

\* event.data && event.data.type === 'SKIP_WAITING'
WantsSkip(m) == m.data # "absent" /\ m.type = "SKIP_WAITING"

\* the message listener
MessageEvent(d) ==
    /\ swState # "redundant"
    /\ lastMsg.n < MaxMessages
    /\ lastMsg' = Msg(lastMsg.n + 1, d.data, d.type)
    /\ skipWaitingFlag' = (skipWaitingFlag \/ WantsSkip(d))
    /\ UNCHANGED <<variant, swState, installPc, activatePc, pending, caches,
                   claimed, oldControls, logged, removing, tasks, syncQueue,
                   bgSync, installRuns, lastInstall, background, replay, page>>

----------------------------------------------------------------------------
(* A later instance of the hand-written worker: the browser has found the  *)
(* script changed (CACHE_NAME and CACHE_URLS as they were, the network     *)
(* serving what it served) and dispatches install to the new instance,     *)
(* long after the activation of the previous one has settled.              *)

Reinstall ==
    /\ variant = "vanilla" /\ swState = "activated" /\ pending = {}
    /\ installRuns < MaxInstalls
    /\ installRuns' = installRuns + 1
    /\ lastInstall' = caches
    /\ swState' = "installing"
    /\ installPc' = "open"
    /\ activatePc' = "idle"
    /\ skipWaitingFlag' = FALSE
    /\ claimed' = FALSE
    /\ oldControls' \in BOOLEAN
    \* the new instance has received no message
    /\ lastMsg' = NotReceived
    /\ UNCHANGED <<variant, pending, caches, logged, removing, tasks, syncQueue,
                   bgSync, background, replay, page>>

LifeNext == Lifecycle \/ (\E d \in MessageData : MessageEvent(d)) \/ Reinstall

\* the lifecycle of the worker, the messages posted to it and its updates
LifeSpec == Init /\ [][LifeNext]_vars

----------------------------------------------------------------------------
(* sw.js: the fetch listener *)

\* (the guards without the method test)
EligibleMutant(req) == req.origin = "same"

\* the two guards of lines 75-82
Eligible(req) == req.method = "GET" /\ req.origin = "same"

\* (the guard without the status test)
ShouldCacheMutant(resp) == resp.type # "undefined"

\* the guard of line 96, negated
ShouldCache(resp) == ~(resp.type = "undefined" \/ resp.status # 200)

\* an earlier fetch event of the same URL has been answered from the network
\* with a 200 response
AnsweredBefore(url) ==
    \E o \in Tasks : /\ tasks[o].req.url = url
                     /\ tasks[o].net.status = 200
                     /\ tasks[o].result = tasks[o].net

\* an earlier fetch event of the same URL has had its cache.put completed
WrittenBefore(url) ==
    \E o \in Tasks : tasks[o].req.url = url /\ tasks[o].wrote

CanDispatch(t) ==
    /\ swState = "activated"
    /\ tasks[t].pc = "idle"
    /\ IF t = 1 THEN TRUE ELSE tasks[t - 1].pc # "idle"

Started(t, r, pc, route) ==
    [IdleTask EXCEPT !.pc = pc, !.req = r, !.route = route,
                     !.responded = (pc # "passthrough"),
                     !.after = AnsweredBefore(r.url),
                     !.afterPut = WrittenBefore(r.url)]

\* the fetch event: return without respondWith, or respondWith(caches.match...)
VFetchEvent(t, r) ==
    /\ variant = "vanilla" /\ CanDispatch(t)
    /\ tasks' = [tasks EXCEPT ![t] =
                    Started(t, r, IF Eligible(r) THEN "match" ELSE "passthrough", "none")]
    /\ UNCHANGED <<variant, swState, installPc, activatePc, pending, caches,
                   skipWaitingFlag, claimed, oldControls, logged, syncQueue, bgSync, removing,
                   lifeVars, replay, page>>

\* (the cached copy returned and the network fetched all the same)
VMatchMutant(t) ==
    /\ tasks[t].pc = "match"
    /\ LET cached == MatchAll(caches, tasks[t].req.url)
       IN  tasks' = [tasks EXCEPT ![t] =
             IF cached # Undefined
             THEN [@ EXCEPT !.readCache = TRUE, !.pc = "fetch", !.result = cached]
             ELSE [@ EXCEPT !.readCache = TRUE, !.miss = TRUE, !.pc = "fetch"]]
    /\ UNCHANGED <<variant, swState, installPc, activatePc, pending, caches,
                   skipWaitingFlag, claimed, oldControls, logged, syncQueue, bgSync, removing,
                   lifeVars, replay, page>>

\* caches.match(event.request) resolves (lines 85-92)
VMatch(t) ==
    /\ tasks[t].pc = "match"
    /\ LET cached == MatchAll(caches, tasks[t].req.url)
       IN  tasks' = [tasks EXCEPT ![t] =
             IF cached # Undefined
             THEN [@ EXCEPT !.readCache = TRUE, !.pc = "done",
                            !.result = cached]
             ELSE [@ EXCEPT !.readCache = TRUE, !.miss = TRUE, !.pc = "fetch"]]
    /\ UNCHANGED <<variant, swState, installPc, activatePc, pending, caches,
                   skipWaitingFlag, claimed, oldControls, logged, syncQueue, bgSync, removing,
                   lifeVars, replay, page>>

\* fetch(event.request) resolves (lines 94-109): the response is returned, and
\* for a 200 response caches.open(CACHE_NAME).then(put) is started, not awaited
VFetchResolve(t, resp) ==
    /\ tasks[t].pc = "fetch"
    /\ resp \in NetResponses(tasks[t].req)
    /\ tasks' = [tasks EXCEPT ![t] =
         IF ShouldCache(resp)
         THEN [@ EXCEPT !.net = resp, !.pc = "done", !.result = resp,
                        !.put = resp, !.putCache = CACHE_NAME]
         ELSE [@ EXCEPT !.net = resp, !.pc = "done", !.result = resp]]
    /\ UNCHANGED <<variant, swState, installPc, activatePc, pending, caches,
                   skipWaitingFlag, claimed, oldControls, logged, syncQueue, bgSync, removing,
                   lifeVars, replay, page>>

\* (the fallback document for every request)
WantsFallbackMutant(req) == TRUE

\* the requests answered with the fallback document (line 114)
WantsFallback(req) == req.mode = "navigate"

\* fetch(event.request) rejects (lines 110-119)
VFetchReject(t) ==
    /\ tasks[t].pc = "fetch"
    /\ tasks' = [tasks EXCEPT ![t] =
         IF WantsFallback(tasks[t].req)
         THEN [@ EXCEPT !.netFailed = TRUE, !.pc = "fallback"]
         ELSE [@ EXCEPT !.netFailed = TRUE, !.pc = "done", !.result = Rejected]]
    /\ logged' = logged \cup {"Fetch failed"}
    /\ UNCHANGED <<variant, swState, installPc, activatePc, pending, caches,
                   skipWaitingFlag, claimed, oldControls, syncQueue, bgSync, removing,
                   lifeVars, replay, page>>

\* caches.match('./index.html') resolves (line 115)
VFallback(t) ==
    /\ tasks[t].pc = "fallback"
    /\ tasks' = [tasks EXCEPT ![t] =
         [@ EXCEPT !.pc = "done", !.result = MatchAll(caches, FallbackUrl)]]
    /\ UNCHANGED <<variant, swState, installPc, activatePc, pending, caches,
                   skipWaitingFlag, claimed, oldControls, logged, syncQueue, bgSync, removing,
                   lifeVars, replay, page>>

\* (the write made to a runtime cache of its own)
PutOkMutant(t) ==
    /\ tasks[t].put # NoResp
    /\ caches' = PutEntry(caches, PagesCache, tasks[t].req.url, tasks[t].put)
    /\ tasks' = [tasks EXCEPT ![t] = [@ EXCEPT !.put = NoResp, !.wrote = TRUE]]
    /\ UNCHANGED <<variant, swState, installPc, activatePc, pending,
                   skipWaitingFlag, claimed, oldControls, logged, syncQueue, bgSync, removing,
                   lifeVars, replay, page>>

\* the cache write started by a fetch task completes
PutOk(t) ==
    /\ tasks[t].put # NoResp
    /\ caches' = PutEntry(caches, tasks[t].putCache, tasks[t].req.url, tasks[t].put)
    /\ tasks' = [tasks EXCEPT ![t] = [@ EXCEPT !.put = NoResp, !.wrote = TRUE]]
    /\ UNCHANGED <<variant, swState, installPc, activatePc, pending,
                   skipWaitingFlag, claimed, oldControls, logged, syncQueue, bgSync, removing,
                   lifeVars, replay, page>>

\* (the failure of the write made the failure of the answer)
PutFailMutant(t) ==
    /\ tasks[t].put # NoResp
    /\ tasks' = [tasks EXCEPT ![t] =
                    [@ EXCEPT !.put = NoResp, !.putFailed = TRUE, !.result = Rejected]]
    /\ UNCHANGED <<variant, swState, installPc, activatePc, pending, caches,
                   skipWaitingFlag, claimed, oldControls, logged, syncQueue, bgSync, removing,
                   lifeVars, replay, page>>

\* the cache write fails (caches.open or cache.put rejects, e.g. over quota):
\* nothing is stored, and nothing is waiting for the write
PutFail(t) ==
    /\ tasks[t].put # NoResp
    /\ tasks' = [tasks EXCEPT ![t] = [@ EXCEPT !.put = NoResp, !.putFailed = TRUE]]
    /\ UNCHANGED <<variant, swState, installPc, activatePc, pending, caches,
                   skipWaitingFlag, claimed, oldControls, logged, syncQueue, bgSync, removing,
                   lifeVars, replay, page>>

VanillaFetch ==
    \E t \in Tasks :
        \/ \E r \in Requests : VFetchEvent(t, r)
        \/ VMatch(t)
        \/ \E resp \in NetResponses(tasks[t].req) : VFetchResolve(t, resp)
        \/ VFetchReject(t)
        \/ VFallback(t)
        \/ PutOk(t)
        \/ PutFail(t)

----------------------------------------------------------------------------
(* app.js (Workbox variant): the background-sync queue 'syncQueue' *)

\* queue.pushRequest: at the tail
PushRequest(q, id, url) == Append(q, QueueEntry(id, url))

\* (the entry put back at the tail)
UnshiftRequestMutant(q, e) == Append(q, e)

\* queue.unshiftRequest: back at the head
UnshiftRequest(q, e) == <<e>> \o q

\* maxRetentionTime: 24 * 60 minutes; the entries pushed first are the oldest
IsExpired(e) == e.id <= replay.expired

\* queue.shiftRequest skips, and removes, the entries at the head that
\* have outlived maxRetentionTime: what is left of the queue after that
RECURSIVE Unexpired(_)
Unexpired(q) ==
    IF q = << >> THEN q
    ELSE IF IsExpired(Head(q)) THEN Unexpired(Tail(q)) ELSE q

Ids(q) == {q[i].id : i \in DOMAIN q}

----------------------------------------------------------------------------
(* app.js (Workbox variant): routing.  The routes are tried in the order   *)
(* they are registered, per request method; the first whose match callback *)
(* accepts the request handles it.  The strategies are those of the        *)
(* Workbox 7.0.0 library the script imports (line 305).                    *)

WbRoute(req) ==
    IF req.method = "GET"
    THEN IF req.origin = "same" /\ req.url \in ManifestUrls THEN "precache"
         ELSE IF req.dest = "image" THEN "CacheFirst"
         ELSE IF req.dest \in {"style", "script"} THEN "StaleWhileRevalidate"
         ELSE IF req.mode = "navigate" THEN "NetworkFirst"
         ELSE "none"
    ELSE IF req.method = "POST" /\ bgSync THEN "NetworkOnly"
    ELSE "none"

\* where a strategy starts: a cache lookup, or the network
WbFirstStep(route) ==
    CASE route = "none"         -> "passthrough"
      [] route = "precache"     -> "wbPrecache"
      [] route = "CacheFirst"   -> "wbMatch"
      [] route = "StaleWhileRevalidate" -> "wbMatch"
      [] OTHER                  -> "wbFetch"

\* the cache a strategy reads and writes
WbCacheOf(route) ==
    CASE route = "precache"     -> PrecacheName
      [] route = "CacheFirst"   -> ImagesCache
      [] route = "NetworkFirst" -> PagesCache
      [] route = "StaleWhileRevalidate" -> AssetsCache
      [] OTHER                  -> ""

\* CacheableResponsePlugin({statuses: [0, 200]})
WbCacheable(resp) == resp.status \in {0, 200}

\* the router's fetch listener
WbFetchEvent(t, r) ==
    /\ variant = "workbox" /\ CanDispatch(t)
    /\ tasks' = [tasks EXCEPT ![t] =
                    Started(t, r, WbFirstStep(WbRoute(r)), WbRoute(r))]
    /\ UNCHANGED <<variant, swState, installPc, activatePc, pending, caches,
                   skipWaitingFlag, claimed, oldControls, logged, syncQueue, bgSync, removing,
                   lifeVars, replay, page>>

\* the precache route: the precached copy, or the network when it is missing
WbPrecacheServe(t) ==
    /\ tasks[t].pc = "wbPrecache"
    /\ LET cached == MatchIn(caches, PrecacheName, tasks[t].req.url)
       IN  tasks' = [tasks EXCEPT ![t] =
             IF cached # Undefined
             THEN [@ EXCEPT !.readCache = TRUE, !.pc = "done", !.result = cached]
             ELSE [@ EXCEPT !.readCache = TRUE, !.miss = TRUE, !.pc = "wbFetch"]]
    /\ UNCHANGED <<variant, swState, installPc, activatePc, pending, caches,
                   skipWaitingFlag, claimed, oldControls, logged, syncQueue, bgSync, removing,
                   lifeVars, replay, page>>

\* (no strategy goes to the network once its cache has answered)
RevalidatesMutant(route) == FALSE

\* the strategies that fetch from the network after their cache has answered
Revalidates(route) == route = "StaleWhileRevalidate"

\* CacheFirst and StaleWhileRevalidate: the lookup in the strategy's cache.
\* On a hit the cached copy is the answer; StaleWhileRevalidate has started
\* its network fetch as well, which goes on after the answer
WbMatch(t) ==
    /\ tasks[t].pc = "wbMatch"
    /\ LET cached == MatchIn(caches, WbCacheOf(tasks[t].route), tasks[t].req.url)
       IN  tasks' = [tasks EXCEPT ![t] =
             IF cached # Undefined
             THEN [@ EXCEPT !.readCache = TRUE, !.result = cached,
                            !.pc = IF Revalidates(tasks[t].route)
                                   THEN "wbLate" ELSE "done"]
             ELSE [@ EXCEPT !.readCache = TRUE, !.miss = TRUE, !.pc = "wbFetch"]]
    /\ UNCHANGED <<variant, swState, installPc, activatePc, pending, caches,
                   skipWaitingFlag, claimed, oldControls, logged, syncQueue, bgSync, removing,
                   lifeVars, replay, page>>

\* (the cached copy preferred to the network's response)
NetworkFirstResultMutant(resp, cached) == IF cached # Undefined THEN cached ELSE resp

\* what NetworkFirst answers with when the network has responded in time
NetworkFirstResult(resp, cached) == resp

\* the network responds.  The response is the strategy's result unless the
\* NetworkFirst timeout has answered already; a cacheable response is written
\* to the strategy's cache without the result waiting for the write
WbFetchResolve(t, resp) ==
    /\ tasks[t].pc \in {"wbFetch", "wbLate"}
    /\ resp \in NetResponses(tasks[t].req)
    /\ LET tk == tasks[t]
           res == IF tk.pc = "wbLate" THEN tk.result
                  ELSE IF tk.route = "NetworkFirst"
                       THEN NetworkFirstResult(resp, MatchIn(caches, PagesCache, tk.req.url))
                       ELSE resp
           store == /\ tk.route \in {"CacheFirst", "NetworkFirst",
                                      "StaleWhileRevalidate"}
                    /\ WbCacheable(resp)
       IN  tasks' = [tasks EXCEPT ![t] =
             [@ EXCEPT !.net = resp, !.pc = "done", !.result = res,
                       !.put = IF store THEN resp ELSE NoResp,
                       !.putCache = IF store THEN WbCacheOf(tk.route) ELSE ""]]
    /\ UNCHANGED <<variant, swState, installPc, activatePc, pending, caches,
                   skipWaitingFlag, claimed, oldControls, logged, syncQueue, bgSync, removing,
                   lifeVars, replay, page>>

\* the network fails.  NetworkFirst falls back to its cache; NetworkOnly's
\* background-sync plugin queues the request; a strategy left without a
\* response throws, which the router hands to the catch handler
WbFetchReject(t) ==
    /\ tasks[t].pc \in {"wbFetch", "wbLate"}
    /\ LET tk == tasks[t]
           cached == MatchIn(caches, PagesCache, tk.req.url)
       IN  /\ tasks' = [tasks EXCEPT ![t] =
                IF tk.pc = "wbLate"
                THEN [@ EXCEPT !.netFailed = TRUE, !.pc = "done"]
                ELSE IF tk.route = "NetworkFirst" /\ cached # Undefined
                THEN [@ EXCEPT !.netFailed = TRUE, !.readCache = TRUE,
                               !.pc = "done", !.result = cached]
                ELSE [@ EXCEPT !.netFailed = TRUE, !.pc = "wbCatch",
                               !.readCache = @ \/ (tk.route = "NetworkFirst"),
                               !.miss = @ \/ (tk.route = "NetworkFirst")]]
           /\ syncQueue' = IF tk.route = "NetworkOnly"
                           THEN PushRequest(syncQueue, replay.queued + 1, tk.req.url)
                           ELSE syncQueue
           /\ replay' = IF tk.route = "NetworkOnly"
                        THEN [replay EXCEPT !.queued = @ + 1] ELSE replay
    /\ UNCHANGED <<variant, swState, installPc, activatePc, pending, caches,
                   skipWaitingFlag, claimed, oldControls, logged, bgSync, removing,
                   lifeVars, page>>

\* NetworkFirst's networkTimeoutSeconds: 3 elapse before the network responds:
\* the cached copy answers when there is one, else the network is awaited
WbTimeout(t) ==
    /\ tasks[t].pc = "wbFetch" /\ tasks[t].route = "NetworkFirst"
    /\ ~tasks[t].timedOut
    /\ LET cached == MatchIn(caches, PagesCache, tasks[t].req.url)
       IN  tasks' = [tasks EXCEPT ![t] =
             IF cached # Undefined
             THEN [@ EXCEPT !.timedOut = TRUE, !.readCache = TRUE,
                            !.pc = "wbLate", !.result = cached]
             ELSE [@ EXCEPT !.timedOut = TRUE, !.readCache = TRUE, !.miss = TRUE]]
    /\ UNCHANGED <<variant, swState, installPc, activatePc, pending, caches,
                   skipWaitingFlag, claimed, oldControls, logged, syncQueue, bgSync, removing,
                   lifeVars, replay, page>>

\* setCatchHandler (lines 410-415)
WbCatch(t) ==
    /\ tasks[t].pc = "wbCatch"
    /\ tasks' = [tasks EXCEPT ![t] =
         IF WantsFallback(tasks[t].req)
         THEN [@ EXCEPT !.pc = "done", !.readCache = TRUE,
                        !.result = MatchIn(caches, PrecacheName, FallbackUrl)]
         ELSE [@ EXCEPT !.pc = "done", !.result = ErrorResponse]]
    /\ UNCHANGED <<variant, swState, installPc, activatePc, pending, caches,
                   skipWaitingFlag, claimed, oldControls, logged, syncQueue, bgSync, removing,
                   lifeVars, replay, page>>

WorkboxFetch ==
    \E t \in Tasks :
        \/ \E r \in Requests : WbFetchEvent(t, r)
        \/ WbPrecacheServe(t)
        \/ WbMatch(t)
        \/ \E resp \in NetResponses(tasks[t].req) : WbFetchResolve(t, resp)
        \/ WbFetchReject(t)
        \/ WbTimeout(t)
        \/ WbCatch(t)

Next == Lifecycle \/ VanillaFetch \/ WorkboxFetch

Spec == Init /\ [][Next]_vars

----------------------------------------------------------------------------
(* app.js (Workbox variant): the replay of the background-sync queue       *)
(* (onSync, lines 426-439), in an activated worker that has registered the *)
(* POST route                                                              *)

SyncInit ==
    /\ variant = "workbox"
    /\ swState = "activated"
    /\ installPc = "resolved"
    /\ activatePc = "resolved"
    /\ pending = {}
    /\ caches = AddAll(<< >>, PrecacheName)
    /\ skipWaitingFlag = TRUE
    /\ claimed = TRUE
    /\ oldControls = FALSE
    /\ logged = {}
    /\ removing = {}
    /\ tasks = [t \in Tasks |-> IdleTask]
    /\ syncQueue = << >>
    /\ bgSync = TRUE
    /\ lastMsg = NotReceived
    /\ installRuns = 1
    /\ lastInstall = << >>
    /\ background = NoBackground
    /\ replay = IdleReplay
    /\ page = InitialPage

\* what the replay leaves alone
notSync == <<variant, swState, installPc, activatePc, pending, caches,
             skipWaitingFlag, claimed, oldControls, logged, removing, tasks,
             bgSync, lifeVars, page>>

\* a POST the NetworkOnly route could not send: the plugin pushes it
QueueFailedPost ==
    /\ bgSync /\ replay.queued < MaxQueued
    /\ syncQueue' = PushRequest(syncQueue, replay.queued + 1, "./api/save")
    /\ replay' = [replay EXCEPT !.queued = @ + 1]
    /\ UNCHANGED notSync

\* time passes: the oldest entry that had not outlived maxRetentionTime has
TimePasses ==
    /\ replay.expired < replay.queued
    /\ replay' = [replay EXCEPT !.expired = @ + 1]
    /\ UNCHANGED <<syncQueue, notSync>>

\* the sync event of the queue: onSync is called
SyncEvent ==
    /\ bgSync /\ replay.pc \in {"idle", "done", "failed"}
    /\ replay.syncs < MaxSyncs
    /\ replay' = [replay EXCEPT !.pc = "shift", !.syncs = @ + 1,
                                !.entry = NoQueueEntry, !.left = << >>]
    /\ UNCHANGED <<syncQueue, notSync>>

\* entry = await queue.shiftRequest(): the loop ends when nothing is left
ShiftRequest ==
    /\ replay.pc = "shift"
    /\ LET q == Unexpired(syncQueue)
           gone == Ids(syncQueue) \ Ids(q)
       IN  IF q = << >>
           THEN /\ syncQueue' = << >>
                /\ replay' = [replay EXCEPT !.pc = "done", !.left = << >>,
                                            !.dropped = @ \cup gone]
           ELSE /\ syncQueue' = Tail(q)
                /\ replay' = [replay EXCEPT !.pc = "fetch", !.entry = Head(q),
                                            !.dropped = @ \cup gone]
    /\ UNCHANGED notSync

\* await fetch(entry.request) resolves, whatever the status of the response
ReplayOk ==
    /\ replay.pc = "fetch"
    /\ replay' = [replay EXCEPT !.pc = "shift", !.entry = NoQueueEntry,
                                !.replayed = Append(@, replay.entry.id)]
    /\ UNCHANGED <<syncQueue, notSync>>

\* await fetch(entry.request) rejects: the catch block is entered
ReplayFail ==
    /\ replay.pc = "fetch"
    /\ replay' = [replay EXCEPT !.pc = "unshift"]
    /\ UNCHANGED <<syncQueue, notSync>>

\* await queue.unshiftRequest(entry); throw error
UnshiftAndThrow ==
    /\ replay.pc = "unshift"
    /\ syncQueue' = UnshiftRequest(syncQueue, replay.entry)
    /\ replay' = [replay EXCEPT !.pc = "failed",
                                !.left = UnshiftRequest(syncQueue, replay.entry)]
    /\ UNCHANGED notSync

SyncNext ==
    \/ QueueFailedPost \/ TimePasses \/ SyncEvent
    \/ ShiftRequest \/ ReplayOk \/ ReplayFail \/ UnshiftAndThrow

SyncSpec == SyncInit /\ [][SyncNext]_vars

----------------------------------------------------------------------------
(* sw.js: the sync and push listeners (lines 138-169), and the worker under *)
(* fetch, message, sync and push events in any order                        *)

\* the events dispatched to the worker so far
Dispatched ==
    Cardinality({t \in Tasks : tasks[t].pc # "idle"}) + lastMsg.n + background.n

\* what the sync and push listeners leave alone
notBackground == <<variant, swState, installPc, activatePc, pending, caches,
                   skipWaitingFlag, claimed, oldControls, logged, removing,
                   tasks, syncQueue, bgSync, lastMsg, installRuns, lastInstall,
                   replay, page>>

\* the tags a sync event can carry: the one sw.js knows, and another
SyncTags == {"sync-data", "sync-other"}

\* the sync listener: event.waitUntil(Promise.resolve()) for 'sync-data'
SwSyncEvent(tag) ==
    /\ variant = "vanilla" /\ swState = "activated"
    /\ Dispatched < MaxEvents
    /\ background' = Background(background.n + 1, "sync", tag, tag = "sync-data")
    /\ UNCHANGED notBackground

\* event.data of a push event: null, or a payload
PushData == {"null", "payload"}

\* the push listener: a notification is shown, its body the payload's text
\* or the default text
PushEvent(data) ==
    /\ variant = "vanilla" /\ swState = "activated"
    /\ Dispatched < MaxEvents
    /\ background' = Background(background.n + 1, "push",
                          IF data # "null" THEN data
                          ELSE "New notification from PWA Demo", TRUE)
    /\ UNCHANGED notBackground

\* the requests of this run: a precached page, a page that is not
\* precached, and a request the listener leaves to the browser
EventRequests ==
    {r \in Requests : r.url \in {"./index.html", "./about.html", "./api/save"}}

EventNext ==
    \/ Lifecycle
    \/ \E t \in Tasks :
          \/ \E r \in EventRequests :
                Dispatched < MaxEvents /\ VFetchEvent(t, r)
          \/ VMatch(t)
          \/ \E resp \in NetResponses(tasks[t].req) : VFetchResolve(t, resp)
          \/ VFetchReject(t)
          \/ VFallback(t)
          \/ PutOk(t)
          \/ PutFail(t)
    \/ \E d \in MessageData :
          Dispatched < MaxEvents /\ swState = "activated" /\ MessageEvent(d)
    \/ \E tag \in SyncTags : SwSyncEvent(tag)
    \/ \E data \in PushData : PushEvent(data)

\* a worker as registered, then its lifecycle and its events
EventSpec == Init /\ [][EventNext]_vars

----------------------------------------------------------------------------
(* app.js, the page script: the install prompt (lines 64-108) *)

\* the page has registered the Workbox worker, which is installing
PageInit ==
    /\ variant = "workbox"
    /\ swState = "installing"
    /\ installPc = "precache"
    /\ activatePc = "idle"
    /\ pending = {}
    /\ caches = << >>
    /\ skipWaitingFlag = TRUE
    /\ claimed = FALSE
    /\ oldControls = FALSE
    /\ logged = {}
    /\ removing = {}
    /\ tasks = [t \in Tasks |-> IdleTask]
    /\ syncQueue = << >>
    /\ bgSync = FALSE
    /\ lastMsg = NotReceived
    /\ installRuns = 1
    /\ lastInstall = << >>
    /\ background = NoBackground
    /\ replay = IdleReplay
    /\ page = InitialPage

\* what the page script's handlers leave alone
notPage == <<variant, swState, installPc, activatePc, pending, caches,
             skipWaitingFlag, claimed, oldControls, logged, removing, tasks,
             syncQueue, bgSync, lifeVars, replay>>

\* the beforeinstallprompt listener (lines 68-76): the event is kept and
\* both buttons are shown
BeforeInstallPrompt ==
    /\ ~page.installed /\ page.events < MaxPromptEvents
    /\ page' = [page EXCEPT !.events = @ + 1,
                            !.prompts = Append(@, 0),
                            !.deferredPrompt = page.events + 1,
                            !.visible = TRUE]
    /\ UNCHANGED notPage

\* handleInstallClick up to its await (lines 78-85), called by a click on
\* either button; deferredPrompt is cleared only after the await (line 93).
\* A second prompt() on an event fails: by throwing, which
\* ends the handler, or by a rejected promise nobody awaits, after which the
\* handler goes on to await userChoice
Click ==
    /\ page.visible /\ page.clicks < MaxClicks
    /\ LET e == page.deferredPrompt
       IN  IF e = 0
           THEN page' = [page EXCEPT !.clicks = @ + 1]
           ELSE \E throws \in (IF page.prompts[e] > 0 THEN BOOLEAN ELSE {FALSE}) :
                  page' = [page EXCEPT
                      !.clicks = @ + 1,
                      !.prompts[e] = @ + 1,
                      !.awaiting = IF throws THEN @ ELSE Append(@, e)]
    /\ UNCHANGED notPage

\* the user answers the prompt of event e: userChoice resolves, and every
\* handler awaiting it runs to its end (lines 87-95): deferredPrompt = null
\* and both buttons hidden
UserChoice(e) ==
    /\ e \in 1..page.events /\ page.prompts[e] > 0 /\ e \notin page.chosen
    /\ page' = [page EXCEPT
          !.chosen = @ \cup {e},
          !.awaiting = SelectSeq(@, LAMBDA a : a # e),
          !.deferredPrompt = 0,
          !.visible = FALSE]
    /\ UNCHANGED notPage

\* the appinstalled listener (lines 105-108): deferredPrompt = null.  The
\* app is installed from the prompt or from the browser's own menu
AppInstalled ==
    /\ ~page.installed
    /\ page' = [page EXCEPT !.installed = TRUE, !.deferredPrompt = 0]
    /\ UNCHANGED notPage

PageNext ==
    \/ BeforeInstallPrompt \/ Click \/ AppInstalled
    \/ \E e \in 1..MaxPromptEvents : UserChoice(e)

PageSpec == PageInit /\ [][PageNext]_vars

----------------------------------------------------------------------------
(* app.js, the page script: the checklist (lines 9-59, 137-145) *)

\* number of calls of updateChecklistItem by other callers than
\* registerServiceWorker in one run
MaxCalls == 2

\* (the status added, none removed)
UpdateChecklistItemMutant(items, id, status, icon) ==
    IF items[id].present
    THEN [items EXCEPT ![id] =
            [@ EXCEPT !.classes = @ \cup {status},
                      !.icon = IF items[id].hasIcon THEN icon ELSE @]]
    ELSE items

\* updateChecklistItem(id, status, icon), on the items of the document
UpdateChecklistItem(items, id, status, icon) ==
    IF items[id].present
    THEN [items EXCEPT ![id] =
            [@ EXCEPT !.classes = (@ \ StatusClasses) \cup {status},
                      !.icon = IF items[id].hasIcon THEN icon ELSE @]]
    ELSE items

\* the two calls that end each path of registerServiceWorker
UpdateBoth(items, status, icon) ==
    UpdateChecklistItem(UpdateChecklistItem(items, "check-sw", status, icon),
                        "check-offline", status, icon)

\* the status and the icon of each path of registerServiceWorker
PathStatus(path) ==
    CASE path = "registered"  -> "success"
      [] path = "failed"      -> "error"
      [] path = "unsupported" -> "warning"

PathIcon(path) ==
    CASE path = "registered"  -> "check mark"
      [] path = "failed"      -> "cross mark"
      [] path = "unsupported" -> "warning sign"

\* registerServiceWorker reaches the end of one of its paths
Finished(pg, path) ==
    [pg EXCEPT !.swIcon = PathIcon(path),
               !.items = UpdateBoth(@, PathStatus(path), PathIcon(path)),
               !.latest = [@ EXCEPT !["check-sw"] = PathStatus(path),
                                    !["check-offline"] = PathStatus(path)],
               !.registerPc = "done",
               !.path = path]

\* the document holds any of the shapes for each checklist item
ChecklistInit ==
    /\ variant = "workbox"
    /\ swState = "installing"
    /\ installPc = "precache"
    /\ activatePc = "idle"
    /\ pending = {}
    /\ caches = << >>
    /\ skipWaitingFlag = TRUE
    /\ claimed = FALSE
    /\ oldControls = FALSE
    /\ logged = {}
    /\ removing = {}
    /\ tasks = [t \in Tasks |-> IdleTask]
    /\ syncQueue = << >>
    /\ bgSync = FALSE
    /\ lastMsg = NotReceived
    /\ installRuns = 1
    /\ lastInstall = << >>
    /\ background = NoBackground
    /\ replay = IdleReplay
    /\ \E f \in [ChecklistItems -> ItemShapes] :
          page = [InitialPage EXCEPT !.items = f]

\* a call of updateChecklistItem by another caller (verifyPWAChecklist)
ChecklistCall(id, status, icon) ==
    /\ page.calls < MaxCalls
    /\ page' = [page EXCEPT
                  !.items = UpdateChecklistItem(@, id, status, icon),
                  !.latest = [@ EXCEPT ![id] = status],
                  !.calls = @ + 1]
    /\ UNCHANGED notPage

\* registerServiceWorker up to its await (lines 9-18), or, when the
\* navigator has no serviceWorker, to its end (lines 52-58)
RegisterServiceWorker(supported) ==
    /\ page.registerPc = "idle"
    /\ page' = IF supported
               THEN [page EXCEPT !.registerPc = "registering"]
               ELSE Finished(page, "unsupported")
    /\ UNCHANGED notPage

\* navigator.serviceWorker.register resolves (lines 20-42)
RegisterResolved ==
    /\ page.registerPc = "registering"
    /\ page' = Finished(page, "registered")
    /\ UNCHANGED notPage

\* navigator.serviceWorker.register rejects (lines 44-51)
RegisterRejected ==
    /\ page.registerPc = "registering"
    /\ page' = Finished(page, "failed")
    /\ UNCHANGED notPage

ChecklistNext ==
    \/ \E id \in ChecklistItems, status \in StatusClasses, icon \in Icons :
          ChecklistCall(id, status, icon)
    \/ \E supported \in BOOLEAN : RegisterServiceWorker(supported)
    \/ RegisterResolved
    \/ RegisterRejected

\* the page script's checklist on any document
ChecklistSpec == ChecklistInit /\ [][ChecklistNext]_vars


----------------------------------------------------------------------------
(* Properties *)

UsedNet(tk) == tk.net # NoResp \/ tk.netFailed

\* the lookup found a cached copy
Hit(tk) == tk.readCache /\ ~tk.miss

\* a stored document, as opposed to an error or an undefined response
IsDocument(r) == r.type = "basic" /\ r.status = 200

\* cache.addAll rejected during this install
AddAllRejected == installPc = "catch" \/ "Cache failed" \in logged

\* C1: if cache.addAll rejects during install, the install does not signal
\* success: the promise given to waitUntil is not fulfilled, skipWaiting is
\* not called and the worker never gets past installing.
C1_InstallFailureIsFatal ==
    AddAllRejected =>
        /\ installPc # "resolved"
        /\ ~skipWaitingFlag
        /\ swState \in {"installing", "redundant"}

\* C2: in every state after an install whose waitUntil promise was fulfilled,
\* every URL of CACHE_URLS has a stored response in the cache CACHE_NAME.
C2_ManifestCachedAfterInstall ==
    (variant = "vanilla" /\ installPc = "resolved") =>
        \A u \in ManifestUrls : MatchIn(caches, CACHE_NAME, u) # Undefined

\* C3: once the activate handler's chain has run to its end, whatever caches
\* existed before, the cache CACHE_NAME is the only cache that exists.
C3_ActivateRemovesStale ==
    (variant = "vanilla" /\ activatePc = "resolved") =>
        /\ \A n \in CacheNames(caches) : n = CACHE_NAME
        /\ HasCache(caches, CACHE_NAME)

C3_Witness ==
    /\ variant = "vanilla" /\ activatePc = "resolved"
    /\ removing = {StaleV0, OtherCache}
    /\ CacheNames(caches) = {CACHE_NAME}

\* C4: a navigation request the worker answers after its network fetch failed
\* and its cache lookup missed is answered with the fallback document, never
\* with an error or an undefined response.
C4_NavigationFallback ==
    \A t \in Tasks :
        (/\ tasks[t].pc = "done" /\ tasks[t].responded
         /\ tasks[t].req.mode = "navigate"
         /\ tasks[t].netFailed /\ tasks[t].miss)
        => IsDocument(tasks[t].result)

C6_OnlyStatus200Stored ==
    \A i \in DOMAIN caches :
        \A u \in DOMAIN caches[i].entries : caches[i].entries[u].status = 200

\* C6, amended: the hand-written worker stores 200 responses only; the
\* Workbox variant stores responses of status 0 (opaque) or 200; a response
\* of any other status is never written, and the network's response is
\* returned to the caller unchanged (unless a cached copy had answered
\* before the network did).
C6_StoredStatuses ==
    /\ \A i \in DOMAIN caches :
         \A u \in DOMAIN caches[i].entries :
            \/ caches[i].entries[u].status = 200
            \/ variant = "workbox" /\ caches[i].entries[u].type = "opaque"
    /\ \A t \in Tasks :
         /\ tasks[t].put # NoResp =>
               \/ tasks[t].put.status = 200
               \/ variant = "workbox" /\ tasks[t].put.type = "opaque"
         /\ (tasks[t].net # NoResp /\ tasks[t].net.status \notin {0, 200}) =>
               /\ tasks[t].put = NoResp /\ ~tasks[t].wrote
               /\ (~tasks[t].timedOut /\ ~Hit(tasks[t]))
                     => tasks[t].result = tasks[t].net
         /\ (variant = "vanilla" /\ tasks[t].net # NoResp) =>
               tasks[t].result = tasks[t].net

\* the hand-written worker has returned a 404 response and stored nothing
C6_Witness ==
    \E t \in Tasks :
        /\ variant = "vanilla" /\ tasks[t].pc = "done"
        /\ tasks[t].net.status = 404 /\ tasks[t].result = tasks[t].net
        /\ MatchAll(caches, tasks[t].req.url) = Undefined

\* the worker has left a fetch event alone
Untouched(tk) ==
    /\ ~tk.responded /\ ~tk.readCache /\ ~UsedNet(tk)
    /\ tk.put = NoResp /\ ~tk.wrote /\ tk.result = NoResp

CleanLifecycle == "Cache failed" \notin logged /\ activatePc = "resolved"

\* C8 as stated: a fetch of a URL started after an earlier fetch of it was
\* answered with a 200 network response is answered from the cache without
\* a network call (here: in a worker whose install and activation succeeded).
C8_SecondFetchFromCache ==
    \A t \in Tasks :
        (/\ variant = "vanilla" /\ CleanLifecycle
         /\ tasks[t].after /\ tasks[t].pc \notin {"idle", "match"})
        => (tasks[t].pc = "done" /\ ~UsedNet(tasks[t]) /\ IsDocument(tasks[t].result))

\* C8, amended: in the hand-written worker a fetch of a URL started after the
\* cache.put of an earlier fetch of it has completed is answered from the
\* cache without a network call.
C8_FetchAfterWriteFromCache ==
    \A t \in Tasks :
        (variant = "vanilla" /\ tasks[t].afterPut /\ tasks[t].pc \notin {"idle", "match"})
        => /\ tasks[t].pc = "done" /\ ~UsedNet(tasks[t])
           /\ tasks[t].readCache /\ IsDocument(tasks[t].result)
           /\ tasks[t].put = NoResp

\* a second fetch answered from the cache an earlier fetch has written
C8_Witness ==
    \E t \in Tasks :
        /\ variant = "vanilla" /\ tasks[t].afterPut /\ tasks[t].pc = "done"
        /\ tasks[t].req.url \notin ManifestUrls
        /\ ~UsedNet(tasks[t])
        /\ tasks[t].result = MatchIn(caches, CACHE_NAME, tasks[t].req.url)

\* C9: an eligible request that is not a navigation, found in no cache, whose
\* network fetch fails, ends in that failure: the caller observes a network
\* error (the hand-written worker rethrows the error), no response stands in
\* for it and no cache is written.
C9_FailureReraised ==
    \A t \in Tasks :
        (/\ tasks[t].pc = "done" /\ tasks[t].responded
         /\ tasks[t].req.method = "GET" /\ tasks[t].req.origin = "same"
         /\ tasks[t].req.mode # "navigate"
         /\ tasks[t].netFailed /\ tasks[t].miss)
        => /\ Delivered(tasks[t].result) = "NetworkError"
           /\ variant = "vanilla" => tasks[t].result = Rejected
           /\ tasks[t].put = NoResp /\ ~tasks[t].wrote

C9_Witness ==
    \E t \in Tasks :
        /\ variant = "vanilla" /\ tasks[t].pc = "done" /\ tasks[t].responded
        /\ tasks[t].req.mode # "navigate"
        /\ tasks[t].netFailed /\ tasks[t].miss
        /\ tasks[t].result = Rejected

\* C10: when a caches.delete of activation has failed, the worker is
\* activated and clients.claim() has been called (here: after an install
\* that stored the manifest).
C10_DeleteFailureTolerated ==
    (/\ variant = "vanilla" /\ "Cache failed" \notin logged
     /\ activatePc = "rejected" /\ swState = "activated")
        => claimed

\* the fetch event of a stylesheet or a script the worker answers
IsAsset(tk) == tk.responded /\ tk.req.dest \in {"style", "script"}

C12_WriteFailureNotFatal ==
    \A t \in Tasks :
        tasks[t].putFailed =>
            /\ tasks[t].pc = "done" /\ tasks[t].net.status \in {0, 200}
            /\ variant = "vanilla" =>
                  (tasks[t].net.status = 200 /\ tasks[t].result = tasks[t].net)
            /\ Delivered(tasks[t].result) # "NetworkError"
            /\ ~tasks[t].wrote

\* the hand-written worker has answered with the network's response, and the
\* write of it has failed: no cache holds the URL
C12_Witness ==
    \E t \in Tasks :
        /\ variant = "vanilla" /\ tasks[t].putFailed
        /\ tasks[t].result = tasks[t].net /\ tasks[t].net.status = 200
        /\ MatchAll(caches, tasks[t].req.url) = Undefined

\* a message whose data is an object of type 'SKIP_WAITING'
IsSkipWaitingMessage(m) == m.data = "object" /\ m.type = "SKIP_WAITING"

\* C13: a message whose data has the type 'SKIP_WAITING' makes the worker
\* call skipWaiting, so that a waiting worker can be activated at once; any
\* other message (no data, no type, another type) leaves skipWaiting
\* uncalled if it was; and no message changes the lifecycle state, a promise
\* chain or a cache.
C13_SkipWaitingMessage ==
    /\ [](IsSkipWaitingMessage(lastMsg) => skipWaitingFlag)
    /\ []((IsSkipWaitingMessage(lastMsg) /\ swState = "installed")
            => ENABLED RuntimeActivate)
    /\ [][lastMsg'.n = lastMsg.n + 1 =>
            /\ skipWaitingFlag' = (skipWaitingFlag \/ IsSkipWaitingMessage(lastMsg'))
            /\ UNCHANGED <<swState, installPc, activatePc, pending, caches,
                           claimed, logged, removing>>]_vars

\* a worker whose install handler never called skipWaiting, held back by the
\* pages of its predecessor, is being activated after a SKIP_WAITING message
C13_Witness ==
    /\ variant = "vanilla" /\ "Cache failed" \in logged /\ installRuns = 1
    /\ oldControls /\ swState = "activating"
    /\ IsSkipWaitingMessage(lastMsg)

\* C14: the install handler is idempotent.  When an install that stored the
\* manifest is followed by the install of a later instance (same CACHE_NAME,
\* same manifest, same network content), Cache Storage is, from the dispatch
\* of the second install event until the activation that follows it, what
\* it was after the first: whether the second addAll succeeds or fails.
C14_InstallIdempotent ==
    (/\ variant = "vanilla" /\ installRuns > 1
     /\ swState \in {"installing", "installed"}
     /\ ManifestUrls \subseteq DOMAIN Entries(lastInstall, CACHE_NAME))
        => caches = lastInstall

\* the second install has stored the manifest again
C14_Witness ==
    /\ variant = "vanilla" /\ installRuns > 1
    /\ installPc = "resolved" /\ skipWaitingFlag /\ swState = "installed"
    /\ ManifestUrls \subseteq DOMAIN Entries(lastInstall, CACHE_NAME)
    /\ ManifestUrls \subseteq DOMAIN Entries(caches, CACHE_NAME)

\* every entry of the manifest is stored in the cache CACHE_NAME
ManifestStored == ManifestUrls \subseteq DOMAIN Entries(caches, CACHE_NAME)

\* C15 as stated, for the hand-written worker: skipWaiting is called only
\* after every manifest entry is stored; clients.claim only after every
\* deletion of a stale cache has completed; and neither waitUntil promise
\* has settled while a step of its handler is still to come: the install
\* promise not before skipWaiting (or the catch), the activate promise not
\* while a caches.delete is in flight.
C15_LifecycleOrdering ==
    variant = "vanilla" =>
        /\ skipWaitingFlag => ManifestStored
        /\ claimed => (pending = {} /\ removing \cap CacheNames(caches) = {})
        /\ installPc = "resolved" => (skipWaitingFlag \/ "Cache failed" \in logged)
        /\ activatePc \in {"resolved", "rejected"} => pending = {}

\* two fetch events of one URL, both of which found no cached copy, both
\* answered 200 by the network, with no cache write left in flight
ConcurrentMisses(t, o) ==
    /\ t # o /\ tasks[t].req.url = tasks[o].req.url
    /\ \A x \in {t, o} :
          /\ tasks[x].responded /\ tasks[x].miss /\ tasks[x].pc = "done"
          /\ tasks[x].net.status = 200 /\ tasks[x].put = NoResp

\* the responses written to the cache for a URL
WrittenFor(url) == {tasks[x].net : x \in {y \in Tasks : tasks[y].req.url = url /\ tasks[y].wrote}}

\* C16: two eligible requests for one uncached URL handled concurrently by
\* the hand-written worker.  Whatever the interleaving, each caller holds the
\* response of its own network fetch; and once the writes are over, a write
\* that did not fail has left exactly one entry for the key, in the cache
\* CACHE_NAME alone, which is one of the 200 responses written for it.
C16_ConcurrentMisses ==
    \A t, o \in Tasks :
        (variant = "vanilla" /\ ConcurrentMisses(t, o)) =>
            LET url == tasks[t].req.url
            IN  /\ tasks[t].result = tasks[t].net
                /\ tasks[o].result = tasks[o].net
                /\ (~tasks[t].putFailed \/ ~tasks[o].putFailed) =>
                      /\ MatchIn(caches, CACHE_NAME, url) \in WrittenFor(url)
                      /\ MatchIn(caches, CACHE_NAME, url).status = 200
                      /\ {i \in DOMAIN caches : url \in DOMAIN caches[i].entries}
                            = {CacheIndex(caches, CACHE_NAME)}

\* both writes done, with different responses; the entry is the response of
\* the fetch event dispatched first, whose write came last
C16_Witness ==
    /\ variant = "vanilla" /\ ConcurrentMisses(1, 2)
    /\ tasks[1].wrote /\ tasks[2].wrote
    /\ tasks[1].net # tasks[2].net
    /\ MatchIn(caches, CACHE_NAME, tasks[1].req.url) = tasks[1].net

\* C17: a cache hit in the hand-written worker.  The step that finds a
\* cached copy of an eligible request ends the handling: the answer is that
\* copy, no network fetch and no cache write is started, and every cache is
\* as it was; and a fetch event answered from a hit never has a network
\* fetch or a cache write to its name.
C17_CacheHitNoSideEffect ==
    /\ [][\A t \in Tasks :
            (/\ variant = "vanilla" /\ tasks[t].pc = "match"
             /\ MatchAll(caches, tasks[t].req.url) # Undefined
             /\ tasks'[t] # tasks[t])
            => /\ tasks'[t].pc = "done"
               /\ tasks'[t].result = MatchAll(caches, tasks[t].req.url)
               /\ ~UsedNet(tasks'[t]) /\ tasks'[t].put = NoResp
               /\ caches' = caches]_vars
    /\ [](\A t \in Tasks :
            (variant = "vanilla" /\ tasks[t].responded /\ Hit(tasks[t]))
            => /\ tasks[t].pc = "done" /\ ~UsedNet(tasks[t])
               /\ tasks[t].put = NoResp /\ ~tasks[t].wrote /\ ~tasks[t].putFailed)

\* a precached URL answered by the hand-written worker from its cache
C17_Witness ==
    \E t \in Tasks :
        /\ variant = "vanilla" /\ tasks[t].responded /\ Hit(tasks[t])
        /\ tasks[t].pc = "done" /\ tasks[t].req.url \in ManifestUrls
        /\ tasks[t].result = MatchIn(caches, CACHE_NAME, tasks[t].req.url)
        /\ ~UsedNet(tasks[t])

\* strictly increasing ids: arrival order, each entry once
AscendingIds(ids) == \A i, j \in DOMAIN ids : i < j => ids[i] < ids[j]

QueueIds(q) == [i \in DOMAIN q |-> q[i].id]

\* the entry onSync has shifted and not yet replayed or put back
InFlight == IF replay.pc \in {"fetch", "unshift"} THEN <<replay.entry>> ELSE << >>

\* the ids of the requests replayed
Replayed == {replay.replayed[i] : i \in DOMAIN replay.replayed}

\* the order and the outcome of a replay, common to C18 as stated and amended
ReplayInOrder ==
    /\ AscendingIds(QueueIds(InFlight \o syncQueue))
    /\ AscendingIds(replay.replayed)
    /\ Replayed \cap Ids(InFlight \o syncQueue) = {}
    /\ replay.pc = "done" => replay.left = << >>
    /\ replay.pc = "failed" =>
          /\ replay.left # << >> /\ Head(replay.left) = replay.entry
          /\ Len(replay.left) <= Len(syncQueue)
          /\ SubSeq(syncQueue, 1, Len(replay.left)) = replay.left

\* C18 as stated: the replay takes the queue in FIFO order and loses none:
\* every request ever queued has been replayed or is still held; the queue
\* is empty when onSync returns; when it throws, the failed entry is at the
\* head, followed by the entries not yet replayed in their order.
C18_ReplayLosesNone ==
    /\ ReplayInOrder
    /\ Replayed \cup Ids(InFlight \o syncQueue) = 1..replay.queued

\* C18, amended: the same, except that shiftRequest drops, without a replay,
\* the entries that have outlived maxRetentionTime (24 hours): every request
\* ever queued has been replayed, is still held, or was dropped expired.
C18_ReplayLosesNoneUnexpired ==
    /\ ReplayInOrder
    /\ Replayed \cup Ids(InFlight \o syncQueue) \cup replay.dropped = 1..replay.queued
    /\ replay.dropped \subseteq 1..replay.expired
    /\ replay.dropped \cap (Replayed \cup Ids(InFlight \o syncQueue)) = {}

\* onSync has thrown after one replay: the failed entry is back at the head,
\* before an entry it had not come to
C18_Witness ==
    /\ replay.pc = "failed" /\ Len(replay.replayed) = 1
    /\ Len(replay.left) = 2 /\ syncQueue = replay.left
    /\ replay.dropped = {}

\* C19 as stated: prompt() is invoked at most once on each captured
\* beforeinstallprompt event, whatever the clicks.
C19_PromptAtMostOnce ==
    \A e \in 1..page.events : page.prompts[e] <= 1

\* C20 as stated: once no click handler is suspended, the install buttons
\* are visible exactly when a deferred prompt is held; and the latest
\* beforeinstallprompt event, as long as it was never prompted and the app
\* is not installed, is the one held.
C20_ButtonsMatchDeferredPrompt ==
    /\ page.awaiting = << >> => (page.visible <=> page.deferredPrompt # 0)
    /\ (page.events > 0 /\ ~page.installed /\ page.prompts[page.events] = 0)
          => page.deferredPrompt = page.events

\* a step in which the worker handles a fetch, message, sync or push event
\* (or continues the handling of a fetch event)
EventStep == tasks' # tasks \/ lastMsg' # lastMsg \/ background' # background

\* the step neither creates nor deletes a cache, removes no entry, and
\* changes no cache other than CACHE_NAME
KeepsCaches ==
    /\ CacheNames(caches') = CacheNames(caches)
    /\ \A n \in CacheNames(caches) :
          /\ DOMAIN Entries(caches, n) \subseteq DOMAIN Entries(caches', n)
          /\ n # CACHE_NAME => Entries(caches', n) = Entries(caches, n)

\* C21 as stated: once the hand-written worker is activated, the existing
\* caches are exactly the one named CACHE_NAME.
C21_OnlyCurrentCache ==
    (variant = "vanilla" /\ swState = "activated")
        => CacheNames(caches) = {CACHE_NAME}

\* C21, amended: the handling of fetch, message, sync and push events by the
\* hand-written worker neither creates nor deletes a cache, removes no entry
\* and writes only to the cache named CACHE_NAME; and once the activation
\* has run to its end, every caches.delete having resolved, the existing
\* caches are exactly the one named CACHE_NAME, whatever events follow.
C21_EventsKeepCaches ==
    [][variant = "vanilla" =>
         /\ EventStep => KeepsCaches
         /\ activatePc = "resolved" => CacheNames(caches) = {CACHE_NAME}
         /\ activatePc' = "resolved" => CacheNames(caches') = {CACHE_NAME}]_vars

\* C21: after an activation that removed the caches left behind, the worker
\* has written a fetched response and has handled a push event; only the
\* cache named CACHE_NAME exists
C21_Witness ==
    /\ variant = "vanilla" /\ activatePc = "resolved"
    /\ removing # {}
    /\ \E t \in Tasks : tasks[t].wrote /\ tasks[t].putCache = CACHE_NAME
    /\ background.kind = "push"
    /\ CacheNames(caches) = {CACHE_NAME}

\* the status classes an item carries
StatusOf(item) == item.classes \cap StatusClasses

\* every item that updateChecklistItem has been called for carries exactly
\* the status of the latest call
CarriesLatest(pg) ==
    \A id \in ChecklistItems :
        (pg.items[id].present /\ pg.latest[id] # "")
            => StatusOf(pg.items[id]) = {pg.latest[id]}

\* the items of registerServiceWorker carry the status of its path
CarryPathStatus(pg) ==
    \A id \in {"check-sw", "check-offline"} :
        pg.items[id].present => StatusOf(pg.items[id]) = {PathStatus(pg.path)}

\* C22: after any sequence of calls of updateChecklistItem an item of the
\* document carries exactly one status class, that of the latest call for it;
\* and in the step that ends registerServiceWorker, on any of its three
\* paths, 'check-sw' and 'check-offline' come to carry the same status,
\* the one of the path.
C22_ChecklistStatus ==
    [][/\ CarriesLatest(page')
       /\ (page.registerPc # "done" /\ page'.registerPc = "done")
             => CarryPathStatus(page')]_vars

\* C22: registration has failed after another caller had called
\* updateChecklistItem for one of the two items, on a document that holds
\* both, 'check-sw' without its icon element; both now carry error alone
C22_Witness ==
    /\ page.registerPc = "done" /\ page.path = "failed"
    /\ page.calls > 0 /\ page.latest["check-https"] = ""
    /\ page.items["check-sw"].present /\ page.items["check-offline"].present
    /\ page.items["check-offline"].icon = "cross mark"
    /\ ~page.items["check-sw"].hasIcon
    /\ StatusOf(page.items["check-sw"]) = {"error"}
    /\ StatusOf(page.items["check-offline"]) = {"error"}

====
